---- MODULE Spec2Model ----
(***************************************************************************)
(* Model of generate_articulation_sets.py: the mapping table, the          *)
(* articulation-set builder, the writer, the installer copy_to_logic_pro   *)
(* and main.                                                               *)
(*                                                                         *)
(* A path or file name is a sequence of symbols.  A symbol is a one        *)
(* character string, except that ROOT_PATH and the expanded                *)
(* LOGIC_PRO_PATH are each one opaque symbol (neither contains a           *)
(* separator that the program ever splits at).  Articulation names are     *)
(* plain strings, the program only copies them.                            *)
(*                                                                         *)
(* A file-system node is a record [kind, data, ents]: kind "none" (no      *)
(* entry), "file" (data = <<document>>, or <<>> for a file opened and      *)
(* truncated but never filled) or "dir" (ents maps entry names to nodes).  *)
(* The variable fs is the working directory; the entry ROOT_PATH is the    *)
(* output root and the entry LOGIC_PRO_PATH is the destination root.       *)
(***************************************************************************)
EXTENDS Integers, Sequences, FiniteSets, TLC

VARIABLES table, copy_overwrite, fs, pc, todo, items, copied_items,
          exit_code, stdout, stderr, trace, runs, prev_output

vars == <<table, copy_overwrite, fs, pc, todo, items, copied_items,
          exit_code, stdout, stderr, trace, runs, prev_output>>

----------------------------------------------------------------------------
(* Bounds *)

MaxNote == 2
MaxRuns == 2

----------------------------------------------------------------------------
(* Program constants *)

ROOT_PATH == <<"output">>

LOGIC_PRO_PATH == <<"~/Music/Audio Music Apps/Articulation Settings">>

----------------------------------------------------------------------------
(* Strings and os.path *)

\* code point of a character of the path alphabet
Ord(c) ==
    CASE c = "." -> 46
      [] c = "/" -> 47
      [] c = "L" -> 76
      [] c = "T" -> 84
      [] c = "a" -> 97
      [] c = "b" -> 98
      [] c = "p" -> 112
      [] c = "z" -> 122

\* s < t on Python strings
RECURSIVE StrLess(_, _)
StrLess(s, t) ==
    IF s = <<>> THEN t # <<>>
    ELSE IF t = <<>> THEN FALSE
    ELSE IF Head(s) = Head(t) THEN StrLess(Tail(s), Tail(t))
    ELSE Ord(Head(s)) < Ord(Head(t))

\* p.rfind(c) + 1
RFind(p, c) ==
    LET I == {i \in 1..Len(p) : p[i] = c}
    IN  IF I = {} THEN 0 ELSE CHOOSE i \in I : \A j \in I : j <= i

\* s.rstrip(c)
RECURSIVE RStrip(_, _)
RStrip(s, c) ==
    IF s # <<>> /\ s[Len(s)] = c THEN RStrip(SubSeq(s, 1, Len(s) - 1), c) ELSE s

basename(p) == SubSeq(p, RFind(p, "/") + 1, Len(p))

dirname(p) ==
    LET head == SubSeq(p, 1, RFind(p, "/"))
    IN  IF head # <<>> /\ (\E i \in 1..Len(head) : head[i] # "/")
        THEN RStrip(head, "/")
        ELSE head

\* os.path.splitext(p) as the pair <<root, ext>>
splitext(p) ==
    LET sepIndex == RFind(p, "/")
        dotIndex == RFind(p, ".")
    IN  IF /\ dotIndex > sepIndex
           /\ \E j \in (sepIndex + 1)..(dotIndex - 1) : p[j] # "."
        THEN <<SubSeq(p, 1, dotIndex - 1), SubSeq(p, dotIndex, Len(p))>>
        ELSE <<p, <<>>>>

\* join that drops its first argument
join_second(a, b) == b

join(a, b) ==
    IF b # <<>> /\ Head(b) = "/" THEN b
    ELSE IF a = <<>> \/ a[Len(a)] = "/" THEN a \o b
    ELSE a \o <<"/">> \o b

\* the components of a path, as the operating system resolves it
RECURSIVE Components(_, _)
Components(p, cur) ==
    IF p = <<>> THEN (IF cur = <<>> THEN <<>> ELSE <<cur>>)
    ELSE IF Head(p) = "/"
         THEN (IF cur = <<>> THEN <<>> ELSE <<cur>>) \o Components(Tail(p), <<>>)
         ELSE Components(Tail(p), Append(cur, Head(p)))

Comps(p) == Components(p, <<>>)

----------------------------------------------------------------------------
(* sorted() *)

\* sorted() with the order reversed
RECURSIVE SortedNotesDescending(_)
SortedNotesDescending(S) ==
    IF S = {} THEN <<>>
    ELSE LET m == CHOOSE x \in S : \A y \in S : x >= y
         IN  <<m>> \o SortedNotesDescending(S \ {m})

RECURSIVE SortedNotes(_)
SortedNotes(S) ==
    IF S = {} THEN <<>>
    ELSE LET m == CHOOSE x \in S : \A y \in S : x <= y
         IN  <<m>> \o SortedNotes(S \ {m})

\* sorted() with the order reversed
RECURSIVE SortedKeysDescending(_)
SortedKeysDescending(S) ==
    IF S = {} THEN <<>>
    ELSE LET m == CHOOSE x \in S : \A y \in S \ {x} : StrLess(y, x)
         IN  <<m>> \o SortedKeysDescending(S \ {m})

RECURSIVE SortedKeys(_)
SortedKeys(S) ==
    IF S = {} THEN <<>>
    ELSE LET m == CHOOSE x \in S : \A y \in S \ {x} : StrLess(x, y)
         IN  <<m>> \o SortedKeys(S \ {m})

----------------------------------------------------------------------------
(* The document builder *)

\* the entry with the display number under both keys
create_articulation_dict_duplicated(articulation_id, name, mb1_value) ==
    [ArticulationID |-> 1000 + articulation_id,
     ID             |-> 1000 + articulation_id,
     Name           |-> name,
     Output         |-> <<[MB1 |-> mb1_value, Status |-> "Note On"]>>]

create_articulation_dict(articulation_id, name, mb1_value) ==
    [ArticulationID |-> articulation_id,
     ID             |-> 1000 + articulation_id,
     Name           |-> name,
     Output         |-> <<[MB1 |-> mb1_value, Status |-> "Note On"]>>]

\* the for loop of generate_articulation_set over the sorted notes
RECURSIVE ArticulationLoop(_, _, _, _)
ArticulationLoop(articulation_mapping, notes, articulation_id, articulations) ==
    IF notes = <<>> THEN articulations
    ELSE LET midi_note == Head(notes)
             articulation_name == articulation_mapping[midi_note]
             mb1_value == midi_note
         IN  ArticulationLoop(articulation_mapping, Tail(notes),
                 articulation_id + 1,
                 Append(articulations,
                        create_articulation_dict(articulation_id,
                                                 articulation_name,
                                                 mb1_value)))

Articulations(articulation_mapping) ==
    ArticulationLoop(articulation_mapping,
                     SortedNotes(DOMAIN articulation_mapping), 1, <<>>)

\* plist_data of generate_articulation_set; the parameter name is not used
plist_data(articulation_mapping, name, output_path) ==
    [Articulations         |-> Articulations(articulation_mapping),
     InputMidiChannel      |-> -1,
     MultipleOutputsActive |-> FALSE,
     Name                  |-> basename(output_path),
     OctaveOffset          |-> 0,
     Switches              |-> <<>>,
     SwitchingEnabled      |-> FALSE]

----------------------------------------------------------------------------
(* The file system *)

NoNode == [kind |-> "none", data |-> <<>>, ents |-> <<>>]

FileNode(d) == [kind |-> "file", data |-> d, ents |-> <<>>]

DirNode(e) == [kind |-> "dir", data |-> <<>>, ents |-> e]

RECURSIVE Lookup(_, _)
Lookup(node, comps) ==
    IF comps = <<>> THEN node
    ELSE IF node.kind = "dir" /\ Head(comps) \in DOMAIN node.ents
         THEN Lookup(node.ents[Head(comps)], Tail(comps))
         ELSE NoNode

\* node with the entry at comps replaced by new (removed when new is NoNode);
\* the parents of comps are directories of node
RECURSIVE Put(_, _, _)
Put(node, comps, new) ==
    IF comps = <<>> THEN new
    ELSE LET n == Head(comps)
             old == IF n \in DOMAIN node.ents THEN node.ents[n] ELSE NoNode
             sub == Put(old, Tail(comps), new)
             D == IF sub.kind = "none"
                  THEN DOMAIN node.ents \ {n}
                  ELSE DOMAIN node.ents \cup {n}
         IN  DirNode([m \in D |-> IF m = n THEN sub ELSE node.ents[m]])

exists(f, path) == Lookup(f, Comps(path)).kind # "none"

isdir(f, path) == Lookup(f, Comps(path)).kind = "dir"

listdir(f, path) == DOMAIN Lookup(f, Comps(path)).ents

\* Results of the calls that change the file system: [ok, fs].

\* rmtree that reports success and removes nothing
rmtree_keep(f, path) ==
    IF isdir(f, path)
    THEN [ok |-> TRUE, fs |-> f]
    ELSE [ok |-> FALSE, fs |-> f]

\* shutil.rmtree(path): removes a directory tree, raises on anything else
rmtree(f, path) ==
    IF isdir(f, path)
    THEN [ok |-> TRUE, fs |-> Put(f, Comps(path), NoNode)]
    ELSE [ok |-> FALSE, fs |-> f]

\* os.makedirs(path, exist_ok=True): creates the missing directories from the
\* top down, raises at the first component that is a file
RECURSIVE MakeDirsFrom(_, _, _)
MakeDirsFrom(f, comps, n) ==
    IF n > Len(comps) THEN [ok |-> TRUE, fs |-> f]
    ELSE LET prefix == SubSeq(comps, 1, n)
             node == Lookup(f, prefix)
         IN  IF node.kind = "file" THEN [ok |-> FALSE, fs |-> f]
             ELSE IF node.kind = "dir" THEN MakeDirsFrom(f, comps, n + 1)
             ELSE MakeDirsFrom(Put(f, prefix, DirNode(<<>>)), comps, n + 1)

\* makedirs that replaces what it finds by an empty directory
makedirs_fresh(f, path) == [ok |-> TRUE, fs |-> Put(f, Comps(path), DirNode(<<>>))]

makedirs(f, path) == MakeDirsFrom(f, Comps(path), 1)

\* open(path, "wb") followed by plistlib.dump(data, f)
open_dump(f, path, data) ==
    LET comps == Comps(path)
        parent == SubSeq(comps, 1, Len(comps) - 1)
    IN  IF Lookup(f, parent).kind = "dir" /\ Lookup(f, comps).kind # "dir"
        THEN [ok |-> TRUE, fs |-> Put(f, comps, FileNode(<<data>>))]
        ELSE [ok |-> FALSE, fs |-> f]

\* shutil.copytree(src, dst): dst must not exist
copytree(f, src, dst) ==
    IF isdir(f, src) /\ ~exists(f, dst)
    THEN [ok |-> TRUE, fs |-> Put(f, Comps(dst), Lookup(f, Comps(src)))]
    ELSE [ok |-> FALSE, fs |-> f]

\* shutil.copy2(src, dst): a dst that is a directory receives the file under
\* the base name of src
copy2(f, src, dst) ==
    LET target == IF isdir(f, dst) THEN join(dst, basename(src)) ELSE dst
    IN  IF Lookup(f, Comps(src)).kind = "file" /\ ~isdir(f, target)
        THEN [ok |-> TRUE, fs |-> Put(f, Comps(target), Lookup(f, Comps(src)))]
        ELSE [ok |-> FALSE, fs |-> f]

----------------------------------------------------------------------------
(* Inputs: mapping tables, and what the two roots hold before the first run *)

Notes == 0..MaxNote

Names == {"Legato", "Spiccato"}

\* every articulation mapping over Notes, the empty one included
ArticulationMappings == UNION {[S -> Names] : S \in SUBSET Notes}

Key_L == <<"L">>

Key_La == <<"L", "/", "a", ".", "p">>

Key_Lb == <<"L", "/", "b", ".", "p">>

Key_T == <<"T", ".", "p">>

PathKeys == {Key_L, Key_La, Key_Lb, Key_T}

ExampleMapping == [n \in {0, 2} |-> IF n = 0 THEN "Legato" ELSE "Spiccato"]

\* tables over any set of keys, and one-key tables with any mapping
MappingTables ==
    {[k \in S |-> ExampleMapping] : S \in SUBSET PathKeys}
    \cup {[k \in {key} |-> m] : key \in {Key_La, Key_T}, m \in ArticulationMappings}

\* a document left by an earlier run with another table
StaleData == <<plist_data([n \in {1} |-> "Spiccato"], <<"z">>, <<"z">>)>>

StaleOutput ==
    DirNode([n \in {<<"L">>, <<"z">>} |->
                IF n = <<"L">>
                THEN DirNode([m \in {<<"z">>} |-> FileNode(StaleData)])
                ELSE FileNode(StaleData)])

PriorOutputs == {NoNode, StaleOutput, FileNode(StaleData)}

\* destination with a same-named directory, a same-named file and an
\* unrelated entry
StaleLogicA ==
    DirNode([n \in {<<"L">>, <<"T", ".", "p">>, <<"z">>} |->
                IF n = <<"L">>
                THEN DirNode([m \in {<<"z">>} |-> FileNode(StaleData)])
                ELSE FileNode(StaleData)])

\* destination whose same-named entries are of the other kind: L is a file,
\* T.p a directory that holds a directory T.p
StaleLogicB ==
    DirNode([n \in {<<"L">>, <<"T", ".", "p">>} |->
                IF n = <<"L">>
                THEN FileNode(StaleData)
                ELSE DirNode([m \in {<<"T", ".", "p">>} |-> DirNode(<<>>)])])

\* the last one: the destination root is a regular file
PriorLogics == {NoNode, StaleLogicA, StaleLogicB, FileNode(StaleData)}

----------------------------------------------------------------------------
(* State *)

OutputRoot == Lookup(fs, <<ROOT_PATH>>)

LogicRoot == Lookup(fs, <<LOGIC_PRO_PATH>>)

Step(op, arg, ok) == [op |-> op, arg |-> arg, ok |-> ok]

Init ==
    /\ table \in MappingTables
    /\ copy_overwrite \in BOOLEAN
    /\ \E o \in PriorOutputs, l \in PriorLogics :
          fs = Put(Put(DirNode(<<>>), <<ROOT_PATH>>, o), <<LOGIC_PRO_PATH>>, l)
    /\ pc = "main"
    /\ todo = <<>>
    /\ items = {}
    /\ copied_items = <<>>
    /\ exit_code = -1
    /\ stdout = <<>>
    /\ stderr = <<>>
    /\ trace = <<>>
    /\ runs = 1
    /\ prev_output = <<>>

\* an exception that is swallowed: the step is recorded as failed and the
\* run goes on from where it was
RaiseSwallowed(op, arg, f) ==
    /\ fs' = f
    /\ pc' = pc
    /\ exit_code' = exit_code
    /\ stderr' = Append(stderr, <<"Traceback", arg>>)
    /\ trace' = Append(trace, Step(op, arg, FALSE))

\* an exception nobody catches: traceback on the error stream, exit status 1
Raise(op, arg, f) ==
    /\ fs' = f
    /\ pc' = "exit"
    /\ exit_code' = 1
    /\ stderr' = Append(stderr, <<"Traceback", arg>>)
    /\ trace' = Append(trace, Step(op, arg, FALSE))

\* the generation steps of the current run all completed
GenerationDone ==
    /\ pc \in {"copy_to_logic_pro", "copy", "exit"}
    /\ \A i \in 1..Len(trace) :
          trace[i].op \in {"rmtree", "generate"} => trace[i].ok

----------------------------------------------------------------------------
(* main *)

\* main up to the generation loop: the header line and the reset of ROOT_PATH
ClearOutput ==
    /\ pc = "main"
    /\ stdout' = Append(stdout, <<"Generating", Cardinality(DOMAIN table)>>)
    /\ UNCHANGED <<table, copy_overwrite, items, copied_items, runs, prev_output>>
    /\ IF exists(fs, ROOT_PATH)
       THEN LET r == rmtree(fs, ROOT_PATH)
            IN  \/ /\ r.ok
                   /\ fs' = r.fs
                   /\ trace' = Append(trace, Step("rmtree", ROOT_PATH, TRUE))
                   /\ pc' = "generate"
                   /\ todo' = SortedKeys(DOMAIN table)
                   /\ UNCHANGED <<exit_code, stderr>>
                \/ /\ ~r.ok
                   /\ Raise("rmtree", ROOT_PATH, fs)
                   /\ UNCHANGED todo
                \/ \* the tree cannot be removed, or only its content can
                   /\ r.ok
                   /\ \E f \in {fs, Put(fs, <<ROOT_PATH>>, DirNode(<<>>))} :
                         Raise("rmtree", ROOT_PATH, f)
                   /\ UNCHANGED todo
       ELSE /\ pc' = "generate"
            /\ todo' = SortedKeys(DOMAIN table)
            /\ UNCHANGED <<fs, trace, exit_code, stderr>>

\* one iteration of the loop of main: generate_articulation_set for the next key
Generate ==
    /\ pc = "generate"
    /\ todo # <<>>
    /\ UNCHANGED <<table, copy_overwrite, items, copied_items, runs, prev_output>>
    /\ LET path_key == Head(todo)
           articulation_mapping == table[path_key]
           output_path == join(ROOT_PATH, path_key)
           name == splitext(basename(path_key))[1]
           data == plist_data(articulation_mapping, name, output_path)
           filename == data.Name
           output_dir == dirname(output_path)
           m == IF output_dir # <<>> THEN makedirs(fs, output_dir)
                ELSE [ok |-> TRUE, fs |-> fs]
           w == open_dump(m.fs, output_path, data)
       IN  \/ /\ m.ok /\ w.ok
              /\ fs' = w.fs
              /\ stdout' = stdout \o <<<<"Generated articulation set", output_path>>,
                                       <<"Name", filename>>,
                                       <<"Articulations", Len(data.Articulations)>>>>
              /\ trace' = Append(trace, Step("generate", path_key, TRUE))
              /\ todo' = Tail(todo)
              /\ UNCHANGED <<pc, exit_code, stderr>>
           \/ /\ ~(m.ok /\ w.ok)
              /\ Raise("generate", path_key, m.fs)
              /\ UNCHANGED <<todo, stdout>>
           \/ \* the directory cannot be created, the file cannot be opened,
              \* or the dump stops after the file was opened
              /\ m.ok /\ w.ok
              /\ \E f \in {fs, m.fs, Put(m.fs, Comps(output_path), FileNode(<<>>))} :
                    Raise("generate", path_key, f)
              /\ UNCHANGED <<todo, stdout>>

\* the loop of main is exhausted: the installer runs only under --copy-overwrite
EndGenerate ==
    /\ pc = "generate"
    /\ todo = <<>>
    /\ IF copy_overwrite
       THEN pc' = "copy_to_logic_pro" /\ UNCHANGED exit_code
       ELSE pc' = "exit" /\ exit_code' = 0
    /\ UNCHANGED <<table, copy_overwrite, fs, todo, items, copied_items,
                   stdout, stderr, trace, runs, prev_output>>

----------------------------------------------------------------------------
(* copy_to_logic_pro *)

\* ROOT_PATH does not exist: raised instead of reported
ReportMissingRaised ==
    /\ Raise("copy_to_logic_pro", ROOT_PATH, fs)
    /\ UNCHANGED <<items, copied_items>>

\* ROOT_PATH does not exist: the diagnostic, then a plain return to main,
\* which returns in turn
ReportMissing ==
    /\ stderr' = Append(stderr, <<"Error: Output directory does not exist", ROOT_PATH>>)
    /\ trace' = Append(trace, Step("copy_to_logic_pro", ROOT_PATH, TRUE))
    /\ pc' = "exit"
    /\ exit_code' = 0
    /\ UNCHANGED <<fs, items, copied_items>>

\* the installer up to its loop: the existence check, the destination root,
\* the listing of ROOT_PATH
copy_to_logic_pro ==
    /\ pc = "copy_to_logic_pro"
    /\ UNCHANGED <<table, copy_overwrite, todo, stdout, runs, prev_output>>
    /\ IF ~exists(fs, ROOT_PATH)
       THEN ReportMissing
       ELSE LET m == makedirs(fs, LOGIC_PRO_PATH)
            IN  \/ /\ m.ok /\ isdir(m.fs, ROOT_PATH)
                   /\ fs' = m.fs
                   /\ items' = listdir(m.fs, ROOT_PATH)
                   /\ copied_items' = <<>>
                   /\ trace' = Append(trace, Step("copy_to_logic_pro", ROOT_PATH, TRUE))
                   /\ pc' = "copy"
                   /\ UNCHANGED <<exit_code, stderr>>
                \/ /\ ~(m.ok /\ isdir(m.fs, ROOT_PATH))
                   /\ Raise("copy_to_logic_pro", ROOT_PATH, m.fs)
                   /\ UNCHANGED <<items, copied_items>>
                \/ \* the destination root cannot be created
                   /\ m.ok /\ isdir(m.fs, ROOT_PATH)
                   /\ Raise("copy_to_logic_pro", ROOT_PATH, fs)
                   /\ UNCHANGED <<items, copied_items>>

\* one iteration of the loop of copy_to_logic_pro; os.listdir fixes no order
CopyItem ==
    /\ pc = "copy"
    /\ UNCHANGED <<table, copy_overwrite, todo, stdout, runs, prev_output>>
    /\ \E item \in items :
          LET source_path == join(ROOT_PATH, item)
              dest_path == join(LOGIC_PRO_PATH, item)
          IN  /\ items' = items \ {item}
              /\ IF isdir(fs, source_path)
                 THEN LET d == IF exists(fs, dest_path) THEN rmtree(fs, dest_path)
                               ELSE [ok |-> TRUE, fs |-> fs]
                          c == copytree(d.fs, source_path, dest_path)
                      IN  \/ /\ d.ok /\ c.ok
                             /\ fs' = c.fs
                             /\ copied_items' = Append(copied_items, <<"Directory", item>>)
                             /\ trace' = Append(trace, Step("copy", item, TRUE))
                             /\ UNCHANGED <<pc, exit_code, stderr>>
                          \/ /\ ~(d.ok /\ c.ok)
                             /\ Raise("copy", item, d.fs)
                             /\ UNCHANGED copied_items
                          \/ \* the old directory cannot be removed, or the
                             \* copy stops before or after creating the new one
                             /\ d.ok /\ c.ok
                             /\ \E f \in {fs, d.fs, Put(d.fs, Comps(dest_path), DirNode(<<>>))} :
                                   Raise("copy", item, f)
                             /\ UNCHANGED copied_items
                 ELSE LET c == copy2(fs, source_path, dest_path)
                          target == IF isdir(fs, dest_path)
                                    THEN join(dest_path, basename(source_path))
                                    ELSE dest_path
                      IN  \/ /\ c.ok
                             /\ fs' = c.fs
                             /\ copied_items' = Append(copied_items, <<"File", item>>)
                             /\ trace' = Append(trace, Step("copy", item, TRUE))
                             /\ UNCHANGED <<pc, exit_code, stderr>>
                          \/ /\ ~c.ok
                             /\ Raise("copy", item, fs)
                             /\ UNCHANGED copied_items
                          \/ \* the target cannot be opened, or the copy stops
                             \* after it was opened
                             /\ c.ok
                             /\ \E f \in {fs, Put(fs, Comps(target), FileNode(<<>>))} :
                                   Raise("copy", item, f)
                             /\ UNCHANGED copied_items

\* the loop of copy_to_logic_pro is exhausted: the report, then main returns
CopyDone ==
    /\ pc = "copy"
    /\ items = {}
    /\ stdout' = IF copied_items # <<>>
                 THEN stdout \o <<<<"Copied to Logic Pro location", LOGIC_PRO_PATH>>>>
                             \o copied_items
                 ELSE Append(stdout, <<"No items found", ROOT_PATH>>)
    /\ pc' = "exit"
    /\ exit_code' = 0
    /\ UNCHANGED <<table, copy_overwrite, fs, todo, items, copied_items,
                   stderr, trace, runs, prev_output>>

----------------------------------------------------------------------------
(* The script is run again with the same table *)

Restart ==
    /\ pc = "exit"
    /\ runs < MaxRuns
    /\ runs' = runs + 1
    /\ prev_output' = IF GenerationDone THEN <<OutputRoot>> ELSE <<>>
    /\ pc' = "main"
    /\ todo' = <<>>
    /\ items' = {}
    /\ copied_items' = <<>>
    /\ exit_code' = -1
    /\ stdout' = <<>>
    /\ stderr' = <<>>
    /\ trace' = <<>>
    /\ UNCHANGED <<table, copy_overwrite, fs>>

Next ==
    \/ ClearOutput
    \/ Generate
    \/ EndGenerate
    \/ copy_to_logic_pro
    \/ CopyItem
    \/ CopyDone
    \/ Restart

Spec == Init /\ [][Next]_vars

TypeOK ==
    /\ pc \in {"main", "generate", "copy_to_logic_pro", "copy", "exit"}
    /\ exit_code \in {-1, 0, 1}
    /\ (pc = "exit") = (exit_code # -1)
    /\ runs \in 1..MaxRuns

----------------------------------------------------------------------------
(* Vocabulary of the properties *)

\* the keys whose document the current run has written
Written ==
    {k \in DOMAIN table :
        \E i \in 1..Len(trace) : trace[i] = Step("generate", k, TRUE)}

\* the document stored under the output root for key k
DocAt(k) == Lookup(fs, Comps(join(ROOT_PATH, k))).data[1]

\* the i-th smallest note of mapping M
NthNote(M, i) ==
    CHOOSE n \in DOMAIN M : Cardinality({x \in DOMAIN M : x <= n}) = i

\* every file of a tree, as <<components below the tree, data>>
RECURSIVE FilesUnder(_)
FilesUnder(node) ==
    IF node.kind = "file" THEN {<<<<>>, node.data>>}
    ELSE IF node.kind = "dir"
         THEN UNION {{<<<<n>> \o e[1], e[2]>> : e \in FilesUnder(node.ents[n])} :
                        n \in DOMAIN node.ents}
         ELSE {}

\* positions of the steps of the current run with the given name
StepsOf(op) == {i \in 1..Len(trace) : trace[i].op = op}

DiagnosticEmitted ==
    \E i \in 1..Len(stderr) :
        stderr[i][1] = "Error: Output directory does not exist"

\* the installer ran its copy loop in the current run and main returned 0
InstallSucceeded ==
    /\ pc = "exit"
    /\ exit_code = 0
    /\ StepsOf("copy_to_logic_pro") # {}
    /\ ~DiagnosticEmitted

----------------------------------------------------------------------------
(* C1: every written document has one articulation per note of its mapping, *)
(* in strictly ascending note order; the i-th carries sequence number i,    *)
(* ID 1000 + i, the name the mapping gives the i-th smallest note, and one  *)
(* output record with MB1 = that note and Status "Note On".                 *)
C1_Articulations ==
    \A k \in Written :
        LET M == table[k]
            A == DocAt(k).Articulations
        IN  /\ Len(A) = Cardinality(DOMAIN M)
            /\ \A i \in 1..Len(A) :
                  /\ A[i].ArticulationID = i
                  /\ A[i].ID = 1000 + i
                  /\ A[i].Name = M[NthNote(M, i)]
                  /\ A[i].Output = <<[MB1 |-> NthNote(M, i), Status |-> "Note On"]>>
            /\ \A i \in 1..(Len(A) - 1) :
                  A[i].Output[1].MB1 < A[i + 1].Output[1].MB1

\* a written document whose mapping has two notes with different names
C1_Witness ==
    \E k \in Written :
        /\ Cardinality(DOMAIN table[k]) >= 2
        /\ \E n1, n2 \in DOMAIN table[k] : table[k][n1] # table[k][n2]
        /\ Len(DocAt(k).Articulations) >= 2

\* C2 as stated: in every record of a written document "ArticulationID"
\* holds the same value as "ID"
C2_SameValue ==
    \A k \in Written :
        \A i \in 1..Len(DocAt(k).Articulations) :
            DocAt(k).Articulations[i].ArticulationID = DocAt(k).Articulations[i].ID

\* C2 amended: in the i-th record of a written document "ArticulationID"
\* holds the sequence number i and "ID" holds i + 1000, so the two differ by
\* 1000 (1 and 1001 in the first record)
C2_Offset ==
    \A k \in Written :
        \A i \in 1..Len(DocAt(k).Articulations) :
            LET a == DocAt(k).Articulations[i]
            IN  /\ a.ArticulationID = i
                /\ a.ID = a.ArticulationID + 1000

\* a written document with a first record
C2_Witness ==
    \E k \in Written :
        /\ Len(DocAt(k).Articulations) >= 1
        /\ DocAt(k).Articulations[1].ID = 1001

\* C3: the top-level "Name" of every written document, and every name
\* printed in a progress line, is the base name of the key without its
\* extension
C3_DisplayName ==
    /\ \A k \in Written : DocAt(k).Name = splitext(basename(k))[1]
    /\ \A i \in 1..Len(stdout) :
          stdout[i][1] = "Name" =>
              \E k \in DOMAIN table : stdout[i][2] = splitext(basename(k))[1]

\* C4: once the generation of a run has completed, the files under the
\* output root are exactly the keys of the table, each holding the document
\* built from its mapping, and the tree equals the one the previous
\* completed generation left
C4_Idempotent ==
    GenerationDone =>
        /\ FilesUnder(OutputRoot) =
              {<<Comps(k), <<plist_data(table[k], splitext(basename(k))[1],
                                        join(ROOT_PATH, k))>>>> : k \in DOMAIN table}
        /\ prev_output # <<>> => OutputRoot = prev_output[1]

\* a second generation over a table of two keys or more has completed
C4_Witness ==
    /\ GenerationDone
    /\ runs >= 2
    /\ prev_output # <<>>
    /\ Cardinality(DOMAIN table) >= 2

\* C5: the installer entered without an output root leaves the whole file
\* system as it is, emits the diagnostic on the error stream and the run
\* ends with exit code 0
C5_MissingRoot ==
    [][(pc = "copy_to_logic_pro" /\ OutputRoot.kind = "none") =>
          /\ fs' = fs
          /\ stderr' = Append(stderr, <<"Error: Output directory does not exist", ROOT_PATH>>)
          /\ pc' = "exit"
          /\ exit_code' = 0]_vars

\* the installer returned after the diagnostic
C5_Witness ==
    /\ pc = "exit"
    /\ exit_code = 0
    /\ copy_overwrite
    /\ DiagnosticEmitted
    /\ OutputRoot.kind = "none"

\* C6: after a successful install every direct child of the output root has
\* a same-named destination entry that equals it: a directory with exactly
\* the source content, a file with the source content
C6_Replaced ==
    InstallSucceeded =>
        \A n \in DOMAIN OutputRoot.ents :
            Lookup(LogicRoot, <<n>>) = OutputRoot.ents[n]

\* C7: the deletion of an existing output root is the first step of a run;
\* documents are written in strictly ascending key order; the installer
\* runs only under the flag and after the document of every key; without
\* the flag the destination root is never touched
C7_Order ==
    /\ [](/\ \A i \in StepsOf("rmtree") : i = 1
          /\ pc = "main" => trace = <<>>
          /\ \A i, j \in StepsOf("generate") :
                i < j => trace[i].ok /\ StrLess(trace[i].arg, trace[j].arg)
          /\ \A i \in StepsOf("copy_to_logic_pro") \cup StepsOf("copy") :
                /\ copy_overwrite
                /\ Written = DOMAIN table
                /\ \A j \in StepsOf("generate") \cup StepsOf("rmtree") : j < i
          /\ (pc = "exit" /\ exit_code = 0) => Written = DOMAIN table)
    /\ [][/\ (pc = "main" /\ OutputRoot.kind # "none") =>
                (Len(trace') = 1 /\ trace'[1].op = "rmtree")
          /\ ~copy_overwrite => LogicRoot' = LogicRoot]_vars

\* a run under the flag that deleted the root, wrote three documents and
\* installed them
C7_Witness ==
    /\ InstallSucceeded
    /\ StepsOf("rmtree") # {}
    /\ Cardinality(Written) >= 3
    /\ StepsOf("copy") # {}

\* C8: a failed step is the last step of its run and the run ends with a
\* non-zero exit code; the failing step undoes nothing that a completed
\* step of the run wrote or copied, and nothing changes afterwards
C8_NoRetryNoRollback ==
    /\ [](/\ \A i \in 1..Len(trace) :
                ~trace[i].ok => (i = Len(trace) /\ pc = "exit" /\ exit_code = 1)
          /\ exit_code = 1 => (trace # <<>> /\ ~trace[Len(trace)].ok)
          /\ \A k \in Written :
                Lookup(fs, Comps(join(ROOT_PATH, k))).kind = "file")
    /\ [][/\ (Len(trace') = Len(trace) + 1 /\ ~trace'[Len(trace')].ok) =>
                \A i \in 1..Len(trace) :
                    LET at == IF trace[i].op = "copy"
                              THEN <<LOGIC_PRO_PATH, trace[i].arg>>
                              ELSE Comps(join(ROOT_PATH, trace[i].arg))
                    IN  trace[i].op \in {"generate", "copy"} =>
                            Lookup(fs', at) = Lookup(fs, at)
          /\ (pc = "exit" /\ exit_code = 1) =>
                (fs' = fs /\ (pc' = "exit" \/ runs' = runs + 1))]_vars

\* a run that failed while copying, after a document was written and an
\* item was copied
C8_Witness ==
    /\ exit_code = 1
    /\ Written # {}
    /\ \E i \in StepsOf("copy") : trace[i].ok
    /\ trace[Len(trace)].op = "copy"

\* C9: no step of the installer changes the output root or a top-level
\* destination entry that has no same-named child of the output root
C9_Frame ==
    [][(pc \in {"copy_to_logic_pro", "copy"}) =>
          /\ OutputRoot' = OutputRoot
          /\ \A n \in (DOMAIN LogicRoot.ents \cup DOMAIN (LogicRoot').ents)
                          \ DOMAIN OutputRoot.ents :
                Lookup(LogicRoot', <<n>>) = Lookup(LogicRoot, <<n>>)]_vars

\* an install has copied an item into a destination that holds an entry of
\* another name
C9_Witness ==
    /\ pc \in {"copy", "exit"}
    /\ \E i \in StepsOf("copy") : trace[i].ok
    /\ DOMAIN LogicRoot.ents \ DOMAIN OutputRoot.ents # {}

\* C10: with a non-empty table the output root exists when the installer is
\* entered, and the diagnostic is emitted only for an empty table
C10_RootExists ==
    /\ (pc = "copy_to_logic_pro" /\ DOMAIN table # {}) => OutputRoot.kind = "dir"
    /\ DiagnosticEmitted => DOMAIN table = {}

\* the installer is entered after the generation of a non-empty table
C10_Witness ==
    /\ pc = "copy_to_logic_pro"
    /\ copy_overwrite
    /\ DOMAIN table # {}
    /\ GenerationDone

====
